---- MODULE Spec2Model ----
(***************************************************************************)
(* Model of shell/renderer/electron_smooth_round_rect.cc: QuarterRotate,   *)
(* CurveGeometry, DrawCorner and DrawSmoothRoundRect.                      *)
(*                                                                         *)
(* Floats are modelled as fixed-point integers in thousandths (One is      *)
(* 1.0f); sin, cos and tan are computed by their Taylor polynomials in     *)
(* that fixed point.  A path is the sequence of SkPath calls made on it.   *)
(***************************************************************************)
EXTENDS Integers, Sequences, FiniteSets, TLC

VARIABLES dcheck_on,          \* build flavour: DCHECK_IS_ON()
          pc,                 \* position of the call of DrawSmoothRoundRect
          args,               \* the arguments of the call in progress
          quarter_rotations,  \* index of the next corner to draw
          curve,              \* the CurveGeometry temporary built last
          path,               \* the SkPath being built
          prev,               \* the previous completed call (two-call runs)
          rot_p, rot_n,       \* QuarterRotate harness: the arguments
          rot_called, rot_out,\* ... the result of QuarterRotate(rot_p, rot_n)
          rot_tr, rot_next,   \* ... the transposed and the index + 1 rotation
          rot_acc, rot_turns  \* ... repeated QuarterRotate(., 1) on rot_p

vars == <<dcheck_on, pc, args, quarter_rotations, curve, path, prev,
          rot_p, rot_n, rot_called, rot_out, rot_tr, rot_next, rot_acc,
          rot_turns>>

drawVars == <<dcheck_on, pc, args, quarter_rotations, curve, path, prev>>
rotVars == <<rot_p, rot_n, rot_called, rot_out, rot_tr, rot_next, rot_acc,
             rot_turns>>

----------------------------------------------------------------------------
(* Bounds and input sets *)

MaxCoord == 2
MaxNegRot == 5
MaxRot == 8
MaxTurns == 5

Coords == (0 - MaxCoord)..MaxCoord
Rots == (0 - MaxNegRot)..MaxRot

One == 1000

Origins == {<<0, 0>>, <<3000, 7000>>}
Widths == {0, 100000, 200000}
Heights == {0, 100000, 200000}
Smoothnesses == {0, 500, 600, 1000, 1500}
Radii == {0, 500, 20000}

PairOrigins == {<<0, 0>>}
PairWidths == {200000}
PairHeights == {100000, 200000}
PairSmoothnesses == {500, 1000}
PairRadii == {10000, 40000}

----------------------------------------------------------------------------
(* Arithmetic *)

\* C++ remainder: truncates toward zero, the sign follows the dividend.
CRem(a, b) == IF a >= 0 THEN a % b ELSE 0 - ((0 - a) % b)

Mul(a, b) == (a * b) \div One

PI_DIV_4 == 785

Sin(a) ==
  LET a2 == Mul(a, a)
      a3 == Mul(a2, a)
      a5 == Mul(a3, a2)
  IN  a - (a3 \div 6) + (a5 \div 120)

Cos(a) ==
  LET a2 == Mul(a, a)
      a4 == Mul(a2, a2)
      a6 == Mul(a4, a2)
  IN  One - (a2 \div 2) + (a4 \div 24) - (a6 \div 720)

Tan(a) == (Sin(a) * One) \div Cos(a)

Add(p, q) == <<p[1] + q[1], p[2] + q[2]>>

----------------------------------------------------------------------------
(* QuarterRotate *)

QuarterRotateNoCarry(p, n) ==
  LET sign_x == IF CRem(n, 4) < 2 THEN 1 ELSE -1
      sign_y == IF CRem(n, 4) < 2 THEN 1 ELSE -1
      is_even_rotation == CRem(n, 2) = 0
      value_x == IF is_even_rotation THEN p[1] ELSE p[2]
      value_y == IF is_even_rotation THEN p[2] ELSE p[1]
  IN  <<sign_x * value_x, sign_y * value_y>>

QuarterRotate(p, n) ==
  LET sign_x == IF CRem(n, 4) < 2 THEN 1 ELSE -1
      sign_y == IF CRem(n + 1, 4) < 2 THEN 1 ELSE -1
      is_even_rotation == CRem(n, 2) = 0
      value_x == IF is_even_rotation THEN p[1] ELSE p[2]
      value_y == IF is_even_rotation THEN p[2] ELSE p[1]
  IN  <<sign_x * value_x, sign_y * value_y>>

----------------------------------------------------------------------------
(* CurveGeometry *)

EdgeCurvePointRatioInverted(d) == (d * 3) \div 2

EDGE_CURVE_POINT_RATIO(d) == (d * 2) \div 3

CurveGeometry(radius, smoothness) ==
  LET edge_connecting_offset == Mul(One + smoothness, radius)
      arc_angle == Mul(PI_DIV_4, smoothness)
      arc_curve_offset == One - Tan(arc_angle \div 2)
  IN  [edge_connecting_offset |-> edge_connecting_offset,
       edge_curve_offset |->
         edge_connecting_offset -
           EDGE_CURVE_POINT_RATIO(edge_connecting_offset - arc_curve_offset),
       arc_curve_offset |-> arc_curve_offset,
       arc_connecting_vector |->
         <<One - Sin(arc_angle), One - Cos(arc_angle)>>]

\* The DCHECKs of the CurveGeometry constructor.
CurveGeometryChecks(radius, smoothness) ==
  /\ radius > 0
  /\ smoothness > 0
  /\ smoothness <= One

edge_connecting_vector(c) == <<c.edge_connecting_offset, 0>>
edge_curve_vector(c) == <<c.edge_curve_offset, 0>>
arc_curve_vector(c) == <<c.arc_curve_offset, 0>>
arc_connecting_vector_transposed(c) ==
  <<c.arc_connecting_vector[2], c.arc_connecting_vector[1]>>

NoCurve == [edge_connecting_offset |-> 0, edge_curve_offset |-> 0,
            arc_curve_offset |-> 0, arc_connecting_vector |-> <<0, 0>>]

----------------------------------------------------------------------------
(* SkPath calls *)

moveTo(p) == [verb |-> "move", pts |-> <<p>>, arc |-> <<>>]
lineTo(p) == [verb |-> "line", pts |-> <<p>>, arc |-> <<>>]
cubicTo(c1, c2, p) == [verb |-> "cubic", pts |-> <<c1, c2, p>>, arc |-> <<>>]
arcTo(r, p) == [verb |-> "arc", pts |-> <<p>>, arc |-> r]
close == [verb |-> "close", pts |-> <<>>, arc |-> <<>>]

----------------------------------------------------------------------------
(* DrawCorner: the four calls it makes on the path *)

EdgeVerbAlwaysLine(q, p) == lineTo(p)

EdgeVerb(q, p) == IF q = 0 THEN moveTo(p) ELSE lineTo(p)

DrawCorner(radius, c, corner, q) ==
  << EdgeVerb(q, Add(corner, QuarterRotate(edge_connecting_vector(c), q + 1))),
     cubicTo(Add(corner, QuarterRotate(edge_curve_vector(c), q + 1)),
             Add(corner, QuarterRotate(arc_curve_vector(c), q + 1)),
             Add(corner, QuarterRotate(arc_connecting_vector_transposed(c), q))),
     arcTo(<<radius, radius>>,
           Add(corner, QuarterRotate(c.arc_connecting_vector, q))),
     cubicTo(Add(corner, QuarterRotate(arc_curve_vector(c), q)),
             Add(corner, QuarterRotate(edge_curve_vector(c), q)),
             Add(corner, QuarterRotate(edge_connecting_vector(c), q))) >>

----------------------------------------------------------------------------
(* DrawSmoothRoundRect *)

PreconditionsAllowZeroWidth(a) ==
  /\ a.width >= 0
  /\ a.height > 0
  /\ a.smoothness > 0
  /\ a.smoothness <= One
  /\ \A k \in 1..4 : a.radii[k] > 0

Preconditions(a) ==
  /\ a.width > 0
  /\ a.height > 0
  /\ a.smoothness > 0
  /\ a.smoothness <= One
  /\ \A k \in 1..4 : a.radii[k] > 0

CornerRadiusTopLeft(a, k) == a.radii[1]

\* radii = <<top_left, top_right, bottom_right, bottom_left>>
CornerRadius(a, k) == a.radii[k + 1]

CornerPointNoHeight(a, k) ==
  CASE k = 0 -> <<a.x, a.y>>
    [] k = 1 -> <<a.x + a.width, a.y>>
    [] k = 2 -> <<a.x + a.width, a.y>>
    [] k = 3 -> <<a.x, a.y + a.height>>

CornerPoint(a, k) ==
  CASE k = 0 -> <<a.x, a.y>>
    [] k = 1 -> <<a.x + a.width, a.y>>
    [] k = 2 -> <<a.x + a.width, a.y + a.height>>
    [] k = 3 -> <<a.x, a.y + a.height>>

NoArgs == [x |-> 0, y |-> 0, width |-> 0, height |-> 0, smoothness |-> 0,
           radii |-> <<0, 0, 0, 0>>]

NoCall == [called |-> FALSE, args |-> NoArgs, path |-> <<>>]

ArgsOf(O, W, H, S, R) ==
  { [x |-> o[1], y |-> o[2], width |-> w, height |-> h, smoothness |-> s,
     radii |-> <<r1, r2, r3, r4>>] :
      o \in O, w \in W, h \in H, s \in S,
      r1 \in R, r2 \in R, r3 \in R, r4 \in R }

\* Entry: the DCHECKs of lines 161-169, then `SkPath path;`.
Enter(a) ==
  /\ pc = "idle"
  /\ args' = a
  /\ path' = <<>>
  /\ quarter_rotations' = 0
  /\ curve' = NoCurve
  /\ pc' = IF dcheck_on /\ ~Preconditions(a) THEN "fatal" ELSE "corners"
  /\ UNCHANGED <<dcheck_on, prev>>

Call == \E a \in ArgsOf(Origins, Widths, Heights, Smoothnesses, Radii) :
          Enter(a) /\ UNCHANGED rotVars

CallPair ==
  \E a \in ArgsOf(PairOrigins, PairWidths, PairHeights, PairSmoothnesses,
                  PairRadii) :
    Enter(a) /\ UNCHANGED rotVars

\* One of the four DrawCorner(path, r, CurveGeometry(r, smoothness), p, k).
Corner ==
  /\ pc = "corners"
  /\ LET q == quarter_rotations
         radius == CornerRadius(args, q)
         c == CurveGeometry(radius, args.smoothness)
     IN  IF dcheck_on /\ ~CurveGeometryChecks(radius, args.smoothness)
         THEN /\ pc' = "fatal"
              /\ UNCHANGED <<curve, path, quarter_rotations>>
         ELSE /\ curve' = c
              /\ path' = path \o DrawCorner(radius, c, CornerPoint(args, q), q)
              /\ quarter_rotations' = q + 1
              /\ pc' = IF q = 3 THEN "close" ELSE "corners"
  /\ UNCHANGED <<dcheck_on, args, prev>>
  /\ UNCHANGED rotVars

\* path.close(); return path;
Close ==
  /\ pc = "close"
  /\ path' = Append(path, close)
  /\ pc' = "returned"
  /\ UNCHANGED <<dcheck_on, args, quarter_rotations, curve, prev>>
  /\ UNCHANGED rotVars

\* The caller takes the path; a later call starts from scratch.
Remember ==
  /\ pc = "returned"
  /\ prev' = [called |-> TRUE, args |-> args, path |-> path]
  /\ pc' = "idle"
  /\ UNCHANGED <<dcheck_on, args, quarter_rotations, curve, path>>
  /\ UNCHANGED rotVars

----------------------------------------------------------------------------
(* QuarterRotate applied to arbitrary arguments *)

\* The three uses DrawCorner makes of QuarterRotate on one vector: rotated by
\* the index, transposed and rotated by the index, rotated by the index + 1.
Rotate ==
  /\ ~rot_called
  /\ rot_called' = TRUE
  /\ rot_out' = QuarterRotate(rot_p, rot_n)
  /\ rot_tr' = QuarterRotate(<<rot_p[2], rot_p[1]>>, rot_n)
  /\ rot_next' = QuarterRotate(rot_p, rot_n + 1)
  /\ UNCHANGED <<rot_p, rot_n, rot_acc, rot_turns>>
  /\ UNCHANGED drawVars

RotateAgain ==
  /\ rot_turns < MaxTurns
  /\ rot_acc' = QuarterRotate(rot_acc, 1)
  /\ rot_turns' = rot_turns + 1
  /\ UNCHANGED <<rot_p, rot_n, rot_called, rot_out, rot_tr, rot_next>>
  /\ UNCHANGED drawVars

----------------------------------------------------------------------------
(* Specifications *)

InitDraw ==
  /\ dcheck_on \in BOOLEAN
  /\ pc = "idle"
  /\ args = NoArgs
  /\ quarter_rotations = 0
  /\ curve = NoCurve
  /\ path = <<>>
  /\ prev = NoCall

InitRot ==
  /\ rot_called = FALSE
  /\ rot_out = <<0, 0>>
  /\ rot_tr = <<0, 0>>
  /\ rot_next = <<0, 0>>
  /\ rot_turns = 0
  /\ rot_acc = rot_p

Init ==
  /\ InitDraw
  /\ rot_p = <<0, 0>>
  /\ rot_n = 0
  /\ InitRot

Next == Call \/ Corner \/ Close

Spec == Init /\ [][Next]_vars

NextPair == CallPair \/ Corner \/ Close \/ Remember

SpecPair == Init /\ [][NextPair]_vars

InitRotate ==
  /\ InitDraw
  /\ rot_p \in Coords \X Coords
  /\ rot_n \in Rots
  /\ InitRot

NextRotate == Rotate \/ RotateAgain

SpecRotate == InitRotate /\ [][NextRotate]_vars

----------------------------------------------------------------------------
(* Properties *)

ValidInput(a) ==
  /\ a.width > 0
  /\ a.height > 0
  /\ a.smoothness > 0
  /\ a.smoothness <= One
  /\ \A k \in 1..4 : a.radii[k] > 0

Verbs(p) == [i \in 1..Len(p) |-> p[i].verb]

CornerVerbs(first) == <<first, "cubic", "arc", "cubic">>

ExpectedVerbs ==
  CornerVerbs("move") \o CornerVerbs("line") \o CornerVerbs("line") \o
  CornerVerbs("line") \o <<"close">>

CountVerb(p, v) == Cardinality({i \in 1..Len(p) : p[i].verb = v})

\* Start of the contour and current point after the first i calls on p.
RECURSIVE Pen(_, _)
Pen(p, i) ==
  IF i = 0 THEN [start |-> <<0, 0>>, cur |-> <<0, 0>>]
  ELSE LET before == Pen(p, i - 1)
           s == p[i]
       IN  CASE s.verb = "move" -> [start |-> s.pts[1], cur |-> s.pts[1]]
             [] s.verb = "close" -> [start |-> before.start,
                                     cur |-> before.start]
             [] OTHER -> [start |-> before.start, cur |-> s.pts[Len(s.pts)]]

Done == pc = "returned" /\ ValidInput(args)

\* C1: for a valid input the calls made on the path are always a prefix of
\* move, cubic, arc, cubic, 3 x (line, cubic, arc, cubic), close, the call
\* never fails, and the returned path is exactly that sequence (1 move,
\* 3 lines, 8 cubics, 4 arcs, 1 close) whose close brings the current point
\* back to the point of the initial move.
C1_VerbSequence ==
  (pc # "idle" /\ ValidInput(args)) =>
    /\ pc # "fatal"
    /\ Len(path) <= Len(ExpectedVerbs)
    /\ Verbs(path) = SubSeq(ExpectedVerbs, 1, Len(path))
    /\ pc = "returned" =>
         /\ Verbs(path) = ExpectedVerbs
         /\ CountVerb(path, "move") = 1
         /\ CountVerb(path, "line") = 3
         /\ CountVerb(path, "cubic") = 8
         /\ CountVerb(path, "arc") = 4
         /\ CountVerb(path, "close") = 1
         /\ Pen(path, Len(path)).cur = path[1].pts[1]

C1_Witness ==
  /\ Done
  /\ Len(path) = 17
  /\ args.radii = <<500, 20000, 500, 20000>>

Min(a, b) == IF a <= b THEN a ELSE b

\* Every corner's edge_connecting_offset is at most half the shorter side.
Fits(a) ==
  \A k \in 1..4 :
    2 * Mul(One + a.smoothness, a.radii[k]) <= Min(a.width, a.height)

InRect(a, p) ==
  /\ a.x <= p[1] /\ p[1] <= a.x + a.width
  /\ a.y <= p[2] /\ p[2] <= a.y + a.height

\* C2: when every corner's edge_connecting_offset is at most half the shorter
\* side, every point put on the path lies in [x, x+width] x [y, y+height].
C2_InsideRectangle ==
  (Done /\ Fits(args)) =>
    \A i \in 1..Len(path) : \A j \in 1..Len(path[i].pts) :
      InRect(args, path[i].pts[j])

\* The points emitted for corner k, in the order they are emitted.
CornerPoints(p, k) ==
  p[4 * k + 1].pts \o p[4 * k + 2].pts \o p[4 * k + 3].pts \o p[4 * k + 4].pts

\* A quarter turn about the centre of the rectangle that takes the top-left
\* corner to the top-right corner.
TurnAboutCentre(a, p) ==
  LET cx == a.x + (a.width \div 2)
      cy == a.y + (a.height \div 2)
  IN  <<cx - (p[2] - cy), cy + (p[1] - cx)>>

AllPoints(p) ==
  UNION { {p[i].pts[j] : j \in 1..Len(p[i].pts)} : i \in 1..Len(p) }

\* C3: for a square with four equal radii, a quarter turn about the centre
\* takes the points of corner k to the points of the next corner, and so the
\* set of emitted points onto itself.
C3_RotationSymmetry ==
  (Done /\ args.width = args.height
        /\ \A k \in 2..4 : args.radii[k] = args.radii[1]) =>
    /\ \A k \in 0..3 :
         [j \in 1..8 |-> TurnAboutCentre(args, CornerPoints(path, k)[j])]
           = CornerPoints(path, (k + 1) % 4)
    /\ {TurnAboutCentre(args, p) : p \in AllPoints(path)} = AllPoints(path)

\* C4: for every radius > 0 and 0 < smoothness <= 1 the measurements of the
\* CurveGeometry built last satisfy
\* 0 <= arc_curve_offset <= edge_curve_offset <= edge_connecting_offset.
C4_OffsetOrdering ==
  (pc \in {"corners", "close", "returned"} /\ quarter_rotations >= 1
     /\ args.radii[quarter_rotations] > 0
     /\ args.smoothness > 0 /\ args.smoothness <= One) =>
    /\ 0 <= curve.arc_curve_offset
    /\ curve.arc_curve_offset <= curve.edge_curve_offset
    /\ curve.edge_curve_offset <= curve.edge_connecting_offset

\* C5 as claimed: whenever a precondition is violated the call ends in the
\* fatal failure with nothing written to a path.
C5_FatalOnViolation ==
  (pc # "idle" /\ ~ValidInput(args)) => (pc = "fatal" /\ path = <<>>)

\* C5 amended: in a build where DCHECKs are on, a call that violates a
\* precondition ends in the fatal failure with nothing written to a path.
C5_FatalWhenDchecksOn ==
  (dcheck_on /\ pc # "idle" /\ ~ValidInput(args)) =>
    (pc = "fatal" /\ path = <<>>)

C5_Witness ==
  /\ dcheck_on
  /\ pc = "fatal"
  /\ args.width = 0
  /\ args.smoothness = 500
  /\ path = <<>>

SameRectangle(a, b) ==
  /\ a.x = b.x /\ a.y = b.y
  /\ a.width = b.width /\ a.height = b.height
  /\ a.smoothness = b.smoothness

\* C6: two valid calls with the same rectangle and smoothness and the same
\* radius for corner k emit identical segments for corner k, whatever the
\* other three radii are.
C6_CornerIndependence ==
  (Done /\ prev.called /\ ValidInput(prev.args)
        /\ SameRectangle(args, prev.args)) =>
    \A k \in 0..3 :
      args.radii[k + 1] = prev.args.radii[k + 1] =>
        SubSeq(path, 4 * k + 1, 4 * k + 4)
          = SubSeq(prev.path, 4 * k + 1, 4 * k + 4)

C6_Witness ==
  /\ Done /\ prev.called
  /\ SameRectangle(args, prev.args)
  /\ args.radii = <<10000, 40000, 40000, 40000>>
  /\ prev.args.radii = <<40000, 40000, 10000, 10000>>
  /\ SubSeq(path, 5, 8) = SubSeq(prev.path, 5, 8)
  /\ SubSeq(path, 1, 4) # SubSeq(prev.path, 1, 4)

\* C7: QuarterRotate(v, 0) = v; k successive quarter rotations of v give
\* QuarterRotate(v, k); four of them give v again.
C7_CyclicGroup ==
  /\ (rot_called /\ rot_n = 0) => rot_out = rot_p
  /\ rot_acc = QuarterRotate(rot_p, rot_turns)
  /\ rot_turns % 4 = 0 => rot_acc = rot_p

C7_Witness ==
  /\ rot_turns = 4
  /\ rot_p = <<1, 2>>
  /\ rot_acc = <<1, 2>>
  /\ rot_called /\ rot_n = 0 /\ rot_out = <<1, 2>>

\* v turned by r quarter turns, r in 0..3.
Turned(v, r) ==
  CASE r = 0 -> <<v[1], v[2]>>
    [] r = 1 -> <<v[2], 0 - v[1]>>
    [] r = 2 -> <<0 - v[1], 0 - v[2]>>
    [] r = 3 -> <<0 - v[2], v[1]>>

\* C8: for every integer n, negative ones included, QuarterRotate(v, n) is v
\* turned by the residue of n modulo 4 in 0..3.
C8_RotateModuloFour ==
  rot_called => rot_out = Turned(rot_p, rot_n % 4)

C10_EdgesOnSides ==
  Done =>
    /\ path[5].verb = "line" /\ path[9].verb = "line"
    /\ path[13].verb = "line" /\ path[17].verb = "close"
    /\ Pen(path, 4).cur[2] = args.y /\ path[5].pts[1][2] = args.y
    /\ Pen(path, 8).cur[1] = args.x + args.width
    /\ path[9].pts[1][1] = args.x + args.width
    /\ Pen(path, 12).cur[2] = args.y + args.height
    /\ path[13].pts[1][2] = args.y + args.height
    /\ Pen(path, 16).cur[1] = args.x
    /\ Pen(path, 17).cur[1] = args.x

C10_Witness ==
  /\ Done
  /\ args.x = 3000 /\ args.y = 7000
  /\ args.width = 200000 /\ args.height = 100000
  /\ path[13].pts[1][2] = 107000

====
